---- MODULE Spec2Model ----
(***************************************************************************)
(* State-machine model of the log viewer's HTTP layer (main.py) together   *)
(* with the log archiver it drives (log_archiver: watcher, capturer,       *)
(* retention sweep, purge).                                                *)
(*                                                                         *)
(* Strings are sequences of atoms.  The atoms "/", "init-", ".log" and     *)
(* ".tmp" stand for exactly those character groups; the other atoms are    *)
(* DNS-label fragments that contain none of them.  Concatenation is \o,    *)
(* Python's `x in y` on strings is Contains, s[:-4] drops the last atom    *)
(* when that atom is a four-character extension, s[5:] drops a leading     *)
(* "init-".                                                                *)
(*                                                                         *)
(* One request is in progress at a time (variable q, which then keeps the  *)
(* response until the next request); the purge handler runs in one step.   *)
(* The watcher, the capturer, the retention sweep and the cluster          *)
(* interleave freely with the steps of a request.                          *)
(***************************************************************************)
EXTENDS Naturals, Sequences, FiniteSets, TLC

VARIABLES
    RETAIN_ALL_POD_LOGS,       \* main.py:79, fixed after start-up
    ALLOW_PREVIOUS_LOG_PURGE,  \* main.py:81, fixed after start-up
    KUBE_POD_NAME,             \* main.py:75, fixed after start-up
    watchers,                  \* the watcher threads started at start-up
    cleanup_job,               \* whether the retention cleanup job was started
    pods,                      \* cluster: pod name -> pod, or NoPod
    gens,                      \* cluster: pod name -> generations created so far
    files,                     \* archive root: relative path -> file content
    dirs,                      \* archive root: the pod-named directories
    tracked,                   \* watcher -> (pod, gen, ref) already attempted
    wjob,                      \* watcher -> capture in flight, or NoJob
    captureCount,              \* history: (pod, gen, ref) -> Capturer invocations, for the
                               \* pod generations a watcher still tracks
    cleanSincePurge,           \* history: a zero-error purge answered, no capture completed since
    q,                         \* the query in progress, or the last query's response
    startup,                   \* where the module's start-up code stands, and what failed in it
    logger_level,              \* app.logger.level
    probes,                    \* readiness probe thread -> its position and locals
    API_KEY,                   \* os.environ["API_KEY"], << >> when unset
    session,                   \* the client's session["api_key"], << >> when unset
    auth                       \* what require_api_key decided for the request in q

vars == << RETAIN_ALL_POD_LOGS, ALLOW_PREVIOUS_LOG_PURGE, KUBE_POD_NAME, watchers,
           cleanup_job, pods, gens, files, dirs, tracked, wjob, captureCount,
           cleanSincePurge, q, startup, logger_level, probes, API_KEY, session, auth >>

\* The process around the handlers: start-up, logger, probes, API key.
process == << startup, logger_level, probes, API_KEY, session, auth >>

\* The configuration and what start-up started.
config == << RETAIN_ALL_POD_LOGS, ALLOW_PREVIOUS_LOG_PURGE, KUBE_POD_NAME, watchers, cleanup_job >>

\* The cluster.
cluster == << pods, gens >>

\* The archive root and the archiver's own state.
archive == << files, dirs, tracked, wjob, captureCount, cleanSincePurge >>

\* ------------------------------------------------------------------ bounds

\* Generations (pod lifetimes) a pod name may go through.
MaxGen == 2

\* ----------------------------------------------------------------- strings

\* Python's `sub in s` for strings: sub is a contiguous part of s.
Contains(sub, s) ==
    \E i \in 0..Len(s) :
        /\ i + Len(sub) <= Len(s)
        /\ \A k \in 1..Len(sub) : s[i + k] = sub[k]

\* s.endswith(".log")
EndsWithLog(s) == Len(s) >= 1 /\ s[Len(s)] = ".log"

\* s[:-4], for a string whose last atom is a four-character extension.
DropExt(s) == IF Len(s) = 0 THEN s ELSE SubSeq(s, 1, Len(s) - 1)

\* "/" in s
HasSlash(s) == \E i \in 1..Len(s) : s[i] = "/"

\* Index of the first "/" of s (s has one).
FirstSlash(s) == CHOOSE i \in 1..Len(s) : s[i] = "/" /\ \A k \in 1..(i - 1) : s[k] # "/"

\* s.split("/", 1): the parts before and after the first "/".
SplitOnce(s) == << SubSeq(s, 1, FirstSlash(s) - 1), SubSeq(s, FirstSlash(s) + 1, Len(s)) >>

\* The elements of a sequence.
Range(s) == { s[i] : i \in 1..Len(s) }

\* The concatenation of a sequence of sequences.
RECURSIVE Flatten(_)
Flatten(ss) == IF ss = << >> THEN << >> ELSE Head(ss) \o Flatten(Tail(ss))

\* A set as a sequence, in one fixed order.
RECURSIVE SetToSeq(_)
SetToSeq(S) ==
    IF S = { } THEN << >>
    ELSE LET x == CHOOSE y \in S : TRUE IN << x >> \o SetToSeq(S \ {x})

\* How many elements of the sequence s equal x.
Count(s, x) == Cardinality({ i \in 1..Len(s) : s[i] = x })

\* ----------------------------------------------------------------- cluster

\* The value of a slot that holds nothing (no pod, no job, no content).
NoPod == [none |-> TRUE]

\* Pod names of the namespace, in the order the API lists them.
PodOrder == << << "a" >> >>

PodNames == Range(PodOrder)

\* The values K8S_POD_NAME is started with: the name of a pod of the
\* namespace, or of a pod the namespace never lists.
OwnNames == { << "a" >>, << "lp" >> }

\* pod.spec of the pods the namespace may hold.
SingleSpec == [containers |-> << << "c" >> >>, init_containers |-> << >>]

MultiSpec == [containers |-> << << "c" >>, << "lp" >> >>, init_containers |-> << >>]

InitSpec == [containers |-> << << "init-", "c" >> >>, init_containers |-> << << "c" >> >>]

PodSpecs == { SingleSpec, MultiSpec, InitSpec }

\* The containers of a pod spec, each with its name and whether it is an init
\* container, init containers first, as the code walks them.
RefList(spec) ==
    [i \in 1..Len(spec.init_containers) |-> [name |-> spec.init_containers[i], init |-> TRUE]]
    \o [i \in 1..Len(spec.containers) |-> [name |-> spec.containers[i], init |-> FALSE]]

RefsOf(spec) == Range(RefList(spec))

AllRefs == UNION { RefsOf(s) : s \in PodSpecs }

\* The pods the API lists (a deleted pod whose DELETED event a watcher has
\* yet to handle is no longer listed).
LivePods == { n \in PodNames : pods[n] # NoPod /\ ~pods[n].gone }

\* list_namespaced_pod(...).items
Items ==
    LET live == SelectSeq(PodOrder, LAMBDA n : n \in LivePods)
    IN  [i \in 1..Len(live) |-> [name |-> live[i], gen |-> pods[live[i]].gen, spec |-> pods[live[i]].spec]]

\* ------------------------------------------------------------- identifiers

\* get_pods' loop body for one pod: f"{pod}/init-{c}" for every init
\* container, then the bare pod name for a pod with one container and no
\* init containers, else f"{pod}/{c}" for every container.
PodIdentifiers(pod_name, spec) ==
    [i \in 1..Len(spec.init_containers) |-> pod_name \o << "/", "init-" >> \o spec.init_containers[i]]
    \o (IF Len(spec.containers) = 1 /\ spec.init_containers = << >>
        THEN << pod_name >>
        ELSE [i \in 1..Len(spec.containers) |-> pod_name \o << "/" >> \o spec.containers[i]])

\* The identifier PodIdentifiers gives a container of a pod.
IdentifierOf(pod_name, spec, ref) ==
    LET i == CHOOSE k \in 1..Len(RefList(spec)) : RefList(spec)[k] = ref
    IN  PodIdentifiers(pod_name, spec)[i]

\* get_pods' pod_info for a pod list.
PodInfo(items, exclude_self) ==
    LET kept == SelectSeq(items, LAMBDA it : ~(exclude_self /\ it.name = KUBE_POD_NAME))
    IN  Flatten([i \in 1..Len(kept) |-> PodIdentifiers(kept[i].name, kept[i].spec)])

\* get_archived_pods' running_pod_containers for a pod list.
RunningPodContainers(items) ==
    UNION { Range(PodIdentifiers(items[i].name, items[i].spec)) : i \in 1..Len(items) }

\* get_logs' decoding of pod_name_req: the pod, and the container asked of
\* the cluster (the empty string when no container is named).
DecodePod(pod_name_req) ==
    IF HasSlash(pod_name_req) THEN SplitOnce(pod_name_req)[1] ELSE pod_name_req

DecodeContainer(pod_name_req) ==
    IF HasSlash(pod_name_req)
    THEN LET container_name == SplitOnce(pod_name_req)[2]
         IN  IF Len(container_name) >= 1 /\ container_name[1] = "init-"
             THEN Tail(container_name)
             ELSE container_name
    ELSE << >>

\* The cluster's read_namespaced_pod_log: the log of the named container of a
\* listed pod; of its only container when none is named; an API error otherwise.
ReadNamespacedPodLog(name, container) ==
    IF name \notin LivePods
    THEN [status |-> 404, src |-> NoPod]
    ELSE LET spec == pods[name].spec
             hit == { r \in RefsOf(spec) : r.name = container }
             sole == [name |-> spec.containers[1], init |-> FALSE]
         IN  IF container = << >>
             THEN IF Len(spec.containers) = 1
                  THEN [status |-> 200, src |-> [pod |-> name, gen |-> pods[name].gen, ref |-> sole]]
                  ELSE [status |-> 400, src |-> NoPod]
             ELSE IF hit = {}
                  THEN [status |-> 400, src |-> NoPod]
                  ELSE [status |-> 200,
                        src |-> [pod |-> name, gen |-> pods[name].gen, ref |-> CHOOSE r \in hit : TRUE]]

\* ----------------------------------------------------------------- queries

\* A query: where its handler stands (idle, walk, open, done), the handler,
\* the HTTP status, the request's pod_name and the fields of the body (for a
\* purge, deleted_count and error_count); and
\* the history a listing keeps: the identifiers of the pods the cluster held
\* when it asked (live), whether that call failed (api_error), the archive
\* files its walk saw (scanned), whether the walk saw a file that is not an
\* archive file (skipped), the names it listed from files that were not
\* whole (partial), and whether it began after a zero-error purge with no
\* capture completed since (clean).  For the statistics: the body's enabled,
\* file_count and oldest_date (<< >> for None, else << time >>), total_size in bytes (the body carries it
\* divided by 1024 twice, which loses nothing), the files of the directory at
\* hand still to be examined (pending), and the archive root as it was when
\* the handler began (before).  For the live queries: the status of the
\* ApiException the handler caught (api_status, 0 when none) and, for the
\* all-pods query, the containers whose log the cluster refused (failed).
\* For the archived read: the path given to open() (opened).
Query(pc, op, status) ==
    [pc |-> pc, op |-> op, status |-> status, name |-> << >>, names |-> << >>,
     items |-> << >>, src |-> NoPod, whole |-> TRUE, running |-> { }, todo |-> { },
     live |-> { }, api_error |-> FALSE, scanned |-> { }, skipped |-> FALSE,
     partial |-> { }, clean |-> FALSE, deleted_count |-> 0, error_count |-> 0,
     enabled |-> TRUE, total_size |-> 0, file_count |-> 0, oldest_date |-> << >>,
     pending |-> { }, before |-> << >>, api_status |-> 0, failed |-> { },
     opened |-> << >>]

\* No handler is between two of its steps.
QueryFree == q.pc \in { "idle", "done" }

\* Every identifier a pod of the namespace can have.
AllIdentifiers == UNION { Range(PodIdentifiers(n, s)) : n \in PodNames, s \in PodSpecs }

\* pod_name values the log queries are tried with: the identifiers, the
\* missing parameter, and the name of a capture's temporary file.
RequestNames ==
    AllIdentifiers \cup { << >> } \cup { << "a", "/", "c", ".log", ".tmp" >> }

\* pod_name values the archived read is tried with.
ArchivedRequestNames ==
    UNION { Range(PodIdentifiers(n, s)) : n \in PodNames, s \in { SingleSpec, MultiSpec } }
    \cup { << >> } \cup { << "a", "/", "c", ".log", ".tmp" >> }

\* ------------------------------------------------------------- /api/pods

\* The statuses an ApiException of a cluster call carries.
ApiErrors == { 403, 503 }

\* What a cluster call does: 0 stands for a call that returns.
ApiOutcomes == { 0 } \cup ApiErrors

\* ApiErrorResponse with the status of the generic handler.
ApiErrorResponseGeneric(op, e_status) ==
    [Query("done", op, 500) EXCEPT !.api_status = e_status]

\* 'except ApiException as e: return jsonify(...), e.status'
ApiErrorResponse(op, e_status) ==
    [Query("done", op, e_status) EXCEPT !.api_status = e_status]

get_pods ==
    \E exclude_self \in BOOLEAN, api \in ApiOutcomes :
        /\ QueryFree
        /\ q' = IF api # 0
                THEN ApiErrorResponse("pods", api)
                ELSE [Query("done", "pods", 200) EXCEPT !.names = PodInfo(Items, exclude_self),
                                                        !.items = Items]
        /\ UNCHANGED << config, process, cluster, archive >>

\* ------------------------------------------------------------- /api/logs

\* The single pod/container branch.
get_logs ==
    \E pod_name_req \in RequestNames, tail_ok \in BOOLEAN, api \in ApiOutcomes :
        /\ QueryFree
        /\ q' = IF pod_name_req = << >> \/ ~tail_ok
                THEN [Query("done", "logs", 400) EXCEPT !.name = pod_name_req]
                ELSE LET got == ReadNamespacedPodLog(DecodePod(pod_name_req),
                                                     DecodeContainer(pod_name_req))
                         e_status == IF api # 0 THEN api ELSE got.status
                     IN  IF e_status # 200
                         THEN [ApiErrorResponse("logs", e_status) EXCEPT !.name = pod_name_req,
                                                                         !.items = Items]
                         ELSE [Query("done", "logs", 200) EXCEPT !.name = pod_name_req,
                                                                 !.items = Items,
                                                                 !.src = got.src]
        /\ UNCHANGED << config, process, cluster, archive >>

\* The containers the all-pods branch reads: those of every listed pod but
\* the viewer's own, each with the container_name its entries carry.
AllPodsContainers(items) ==
    LET kept == SelectSeq(items, LAMBDA it : it.name # KUBE_POD_NAME)
    IN  Flatten([i \in 1..Len(kept) |->
                   [j \in 1..Len(RefList(kept[i].spec)) |->
                       [pod_name |-> kept[i].name,
                        container_name |-> IF RefList(kept[i].spec)[j].init
                                           THEN << "init-" >> \o RefList(kept[i].spec)[j].name
                                           ELSE RefList(kept[i].spec)[j].name]]])

\* The all-pods branch (pod_name=all): an ApiException of the pod list is
\* answered with its status; one of a container's log read becomes an entry
\* with "error": True in the 200 response.
get_logs_all ==
    \E tail_ok \in BOOLEAN, api \in ApiOutcomes :
        /\ QueryFree
        /\ IF ~tail_ok
           THEN q' = [Query("done", "logs_all", 400) EXCEPT !.name = << "all" >>]
           ELSE IF api # 0
           THEN q' = [ApiErrorResponse("logs_all", api) EXCEPT !.name = << "all" >>]
           ELSE LET read == AllPodsContainers(Items)
                IN  \E failed \in SUBSET Range(read), e_status \in ApiErrors :
                       /\ failed = { } => e_status = 403
                       /\ q' = [Query("done", "logs_all", 200) EXCEPT
                                   !.name = << "all" >>,
                                   !.failed = failed,
                                   !.api_status = IF failed = { } THEN 0 ELSE e_status,
                                   !.names = [i \in 1..Len(read) |->
                                                 [pod_name |-> read[i].pod_name,
                                                  container_name |-> read[i].container_name,
                                                  error |-> read[i] \in failed]]]
        /\ UNCHANGED << config, process, cluster, archive >>

\* ------------------------------------------------------------ archive root

\* A function with x mapped to v, and without x.
Put(f, x, v) == [y \in DOMAIN f \cup {x} |-> IF y = x THEN v ELSE f[y]]

Remove(f, X) == [y \in DOMAIN f \ X |-> f[y]]

\* IsArchiveFile without the extension test.
IsArchiveFileAny(filename) == TRUE

\* filename.endswith(".log"): the file is an archive entry.
IsArchiveFile(filename) == EndsWithLog(filename)

\* The directory of a relative path ("" for the archive root itself).
DirOf(path) == IF HasSlash(path) THEN SplitOnce(path)[1] ELSE << >>

\* The files os.walk yields for one directory of the archive root.
FilesIn(dir) == { path \in DOMAIN files : DirOf(path) = dir }

\* The archive entries.
Entries == { path \in DOMAIN files : IsArchiveFile(path) }

\* The archive file of a container: its identifier and the fixed extension.
ArchivePath(pod_name, spec, ref) == IdentifierOf(pod_name, spec, ref) \o << ".log" >>

\* The temporary file a capture writes before it renames it into place.
TempPath(path) == path \o << ".tmp" >>

\* ----------------------------------------------- /api/archived_pods (list)

\* Listed without the running-pod test.
ListedIgnoringRunning(pod_container, running) == ~Contains(KUBE_POD_NAME, pod_container)

\* Listed with the own-pod test on the whole name instead of inside it.
ListedOwnByEquality(pod_container, running) ==
    /\ KUBE_POD_NAME # pod_container
    /\ pod_container \notin running

\* The filter of line 548: neither the viewer's own pod nor a running one.
Listed(pod_container, running) ==
    /\ ~Contains(KUBE_POD_NAME, pod_container)
    /\ pod_container \notin running

\* The names the loop body appends for the files of one directory.
ListedNames(paths, running) ==
    LET kept == SelectSeq(SetToSeq(paths),
                          LAMBDA path : IsArchiveFile(path) /\ Listed(DropExt(path), running))
    IN  [i \in 1..Len(kept) |-> DropExt(kept[i])]

\* The handler up to the walk: the disabled answer, or the pod list (an
\* ApiException leaves running_pod_containers empty).
ListBegin ==
    /\ QueryFree
    /\ \/ /\ ~RETAIN_ALL_POD_LOGS
          /\ q' = Query("done", "archived_pods", 200)
       \/ /\ RETAIN_ALL_POD_LOGS
          /\ \E api_error \in BOOLEAN :
                q' = [Query("walk", "archived_pods", 200) EXCEPT
                        !.running = IF api_error THEN { } ELSE RunningPodContainers(Items),
                        !.live = RunningPodContainers(Items),
                        !.api_error = api_error,
                        !.todo = { << >> },
                        !.clean = cleanSincePurge]
    /\ UNCHANGED << config, process, cluster, archive >>

\* One directory of os.walk, top-down: the archive root first, whose
\* sub-directories are then walked; after the last one the handler returns.
ListWalk ==
    /\ q.pc = "walk" /\ q.op = "archived_pods"
    /\ \E dir \in q.todo :
          /\ << >> \in q.todo => dir = << >>
          /\ LET seen == FilesIn(dir)
                 todo == IF dir = << >> THEN dirs ELSE q.todo \ {dir}
             IN  q' = [q EXCEPT
                         !.names = @ \o ListedNames(seen, q.running),
                         !.scanned = @ \cup { f \in seen : IsArchiveFile(f) },
                         !.skipped = @ \/ \E f \in seen : ~IsArchiveFile(f),
                         !.partial = @ \cup { DropExt(path) : path \in
                                                { f \in seen : /\ IsArchiveFile(f)
                                                               /\ Listed(DropExt(f), q.running)
                                                               /\ ~files[f].whole } },
                         !.todo = todo,
                         !.pc = IF todo = { } THEN "done" ELSE "walk"]
    /\ UNCHANGED << config, process, cluster, archive >>

\* ----------------------------------------------- /api/archived_logs (read)

\* f"{pod_name}.log": for a pod_name without ".." and without a leading
\* "/", the path of the file relative to LOG_DIR.
LogFilePath(pod_name) == pod_name \o << ".log" >>

\* LOG_DIR = "/logs"
LOG_DIR == << "/", "logs" >>

\* The files of the container's file system outside LOG_DIR that end in
\* ".log", by absolute path.
HostFiles == { << "/", "host", ".log" >> }

\* os.path.join(a, p): an absolute p discards a.
OsPathJoin(a, p) == IF p # << >> /\ Head(p) = "/" THEN p ELSE a \o << "/" >> \o p

\* The directories of the file system, as component lists: "/", LOG_DIR and
\* the pod-named directories of the archive root.
IsDirectory(at) ==
    \/ at = << >>
    \/ at = << << "logs" >> >>
    \/ Len(at) = 2 /\ at[1] = << "logs" >> /\ at[2] \in dirs

\* One component of a path, looked up from the directory at: an empty one
\* (between two "/") changes nothing, ".." moves to the parent of an existing
\* directory ("/" is its own parent) and fails, with << << >> >>, on
\* something that is no directory.
Step(at, component) ==
    IF component = << >> \/ at = << << >> >> THEN at
    ELSE IF component = << ".." >>
         THEN IF ~IsDirectory(at) THEN << << >> >>
              ELSE IF at = << >> THEN at
              ELSE SubSeq(at, 1, Len(at) - 1)
    ELSE Append(at, component)

\* The lookup of a path atom by atom: component is the part read since the
\* last "/".
RECURSIVE Lookup(_, _, _)
Lookup(at, component, left) ==
    IF left = << >> THEN Step(at, component)
    ELSE IF Head(left) = "/" THEN Lookup(Step(at, component), << >>, Tail(left))
    ELSE Lookup(at, Append(component, Head(left)), Tail(left))

\* The components of the file an absolute path names.
RealPath(path) == Lookup(<< >>, << >>, path)

\* The file named lies inside the archive root directory.
UnderLogDir(real) == Len(real) >= 2 /\ real[1] = << "logs" >>

\* The path lies inside the archive root directory.
InsideRoot(path) == UnderLogDir(RealPath(path))

\* The key, in files, of a file inside the archive root.
RootKey(real) == IF Len(real) = 2 THEN real[2] ELSE real[2] \o << "/" >> \o real[3]

\* The file outside the archive root, as HostFiles writes it.
HostPath(real) == Flatten([i \in 1..Len(real) |-> << "/" >> \o real[i]])

\* os.path.exists(path) and open(path): the path names a file.
IsFile(path) ==
    LET real == RealPath(path)
    IN  IF UnderLogDir(real)
        THEN Len(real) <= 3 /\ RootKey(real) \in DOMAIN files
        ELSE HostPath(real) \in HostFiles

\* log_file_path = os.path.join(LOG_DIR, f"{pod_name}.log")
log_file_path(pod_name) == OsPathJoin(LOG_DIR, LogFilePath(pod_name))

\* pod_name values with ".." components or a leading "/".
TraversalNames ==
    { << "..", "/", "host" >>, << "/", "host" >>, << "a", "/", "..", "/", "a" >> }

\* The handler up to the end of its checks: disabled, no pod_name, no such
\* file, bad tail_lines.
ReadBeginOf(names) ==
    /\ QueryFree
    /\ \E pod_name \in names, tail_ok \in BOOLEAN :
          q' = IF ~RETAIN_ALL_POD_LOGS
                   THEN [Query("done", "archived_logs", 403) EXCEPT !.name = pod_name]
               ELSE IF pod_name = << >>
                   THEN [Query("done", "archived_logs", 400) EXCEPT !.name = pod_name]
               ELSE IF ~IsFile(log_file_path(pod_name))
                   THEN [Query("done", "archived_logs", 404) EXCEPT !.name = pod_name]
               ELSE IF ~tail_ok
                   THEN [Query("done", "archived_logs", 400) EXCEPT !.name = pod_name]
               ELSE [Query("open", "archived_logs", 200) EXCEPT !.name = pod_name]
    /\ UNCHANGED << config, process, cluster, archive >>

\* The archived read of the identifiers the listing returns.
ReadBegin == ReadBeginOf(ArchivedRequestNames)

\* The archived read of any pod_name.
ReadBeginAny == ReadBeginOf(ArchivedRequestNames \cup TraversalNames)

\* open() and readlines(): the content, or the exception handler's 500.
ReadOpen ==
    /\ q.pc = "open" /\ q.op = "archived_logs"
    /\ LET path == log_file_path(q.name)
           real == RealPath(path)
       IN  q' = IF ~IsFile(path)
                THEN [q EXCEPT !.pc = "done", !.status = 500]
                ELSE IF UnderLogDir(real)
                THEN LET file == files[RootKey(real)]
                     IN  [q EXCEPT !.pc = "done",
                                   !.opened = path,
                                   !.src = [pod |-> file.pod, gen |-> file.gen,
                                            ref |-> file.ref],
                                   !.whole = file.whole]
                ELSE [q EXCEPT !.pc = "done",
                               !.opened = path,
                               !.src = [host |-> HostPath(real)]]
    /\ UNCHANGED << config, process, cluster, archive >>

\* --------------------------------------------------------- /api/logDirStats

\* os.stat(file_path).st_size: the size of the log of one container of one
\* pod generation; the logs of different containers differ in size.
StSize(file) == IF file.ref.name = << "c" >> THEN file.gen ELSE MaxGen + file.gen

\* os.stat(file_path).st_ctime: the time the file was renamed into place;
\* the captures of a later pod generation are later.
StCtime(file) == file.gen

\* OldestDate with the comparison turned round.
OldestDateNewest(oldest_date, creation_time) ==
    IF oldest_date = << >> \/ creation_time > oldest_date[1]
    THEN << creation_time >> ELSE oldest_date

\* Lines 706-707: the oldest date after one more file.
OldestDate(oldest_date, creation_time) ==
    IF oldest_date = << >> \/ creation_time < oldest_date[1]
    THEN << creation_time >> ELSE oldest_date

\* The handler up to the walk: the disabled answer, or the counters at zero.
StatsBegin ==
    /\ QueryFree
    /\ q' = IF ~RETAIN_ALL_POD_LOGS
            THEN [Query("done", "stats", 200) EXCEPT !.enabled = FALSE, !.before = files]
            ELSE [Query("walk", "stats", 200) EXCEPT !.todo = { << >> }, !.before = files]
    /\ UNCHANGED << config, process, cluster, archive >>

\* os.walk yields one directory with the names of its files: the archive
\* root first, then its sub-directories; after the last directory with no
\* archive file left to examine the handler returns.
StatsWalk ==
    /\ q.pc = "walk" /\ q.op = "stats" /\ q.pending = { }
    /\ \E dir \in q.todo :
          /\ << >> \in q.todo => dir = << >>
          /\ LET todo == IF dir = << >> THEN dirs ELSE q.todo \ {dir}
                 pending == { f \in FilesIn(dir) : IsArchiveFile(f) }
             IN  q' = [q EXCEPT !.todo = todo,
                                !.pending = pending,
                                !.pc = IF todo = { } /\ pending = { } THEN "done" ELSE "walk"]
    /\ UNCHANGED << config, process, cluster, archive >>

\* os.stat of the next file of the directory and the three updates; a file
\* that is gone makes os.stat raise, which the handler answers with 500.
StatsStat ==
    /\ q.pc = "walk" /\ q.op = "stats" /\ q.pending # { }
    /\ LET file_path == CHOOSE f \in q.pending : TRUE
           pending == q.pending \ {file_path}
       IN  q' = IF file_path \in DOMAIN files
                THEN [q EXCEPT !.total_size = @ + StSize(files[file_path]),
                               !.file_count = @ + 1,
                               !.oldest_date = OldestDate(@, StCtime(files[file_path])),
                               !.pending = pending,
                               !.pc = IF q.todo = { } /\ pending = { } THEN "done" ELSE "walk"]
                ELSE [q EXCEPT !.status = 500, !.pc = "done"]
    /\ UNCHANGED << config, process, cluster, archive >>

\* --------------------------------------------------- /api/purgePreviousLogs

\* Deletions one purge may fail to carry out.
MaxDeleteErrors == 1

\* PurgeGate without its second check.
PurgeGateRetainOnly == RETAIN_ALL_POD_LOGS

\* The two checks before the purge operation is called.
PurgeGate == RETAIN_ALL_POD_LOGS /\ ALLOW_PREVIOUS_LOG_PURGE

\* PurgeResponse with the error count left at zero.
PurgeResponseNoErrors(deleted_count, error_count) ==
    [Query("done", "purge", 200) EXCEPT !.deleted_count = deleted_count]

\* The body of the success response.
PurgeResponse(deleted_count, error_count) ==
    [Query("done", "purge", 200) EXCEPT !.deleted_count = deleted_count,
                                         !.error_count = error_count]

\* purge_previous_pod_logs(LOG_DIR, logger): every archive entry is deleted;
\* a deletion that fails is counted and leaves its entry.
purge_previous_pod_logs(failed) ==
    /\ files' = Remove(files, Entries \ failed)
    /\ q' = PurgeResponse(Cardinality(Entries \ failed), Cardinality(failed))
    /\ cleanSincePurge' = (q'.error_count = 0)

purge_previous_logs ==
    /\ QueryFree
    /\ IF PurgeGate
       THEN \E failed \in SUBSET Entries :
               /\ Cardinality(failed) <= MaxDeleteErrors
               /\ purge_previous_pod_logs(failed)
       ELSE /\ q' = Query("done", "purge", 403)
            /\ UNCHANGED << files, cleanSincePurge >>
    /\ UNCHANGED << config, process, cluster, dirs, tracked, wjob, captureCount >>

\* ------------------------------------------------------- retention sweep

\* One deletion of the periodic sweep: an entry older than the retention age
\* (any entry may have reached that age).
SweepDelete ==
    /\ cleanup_job
    /\ \E path \in Entries : files' = Remove(files, {path})
    /\ UNCHANGED << config, process, cluster, dirs, tracked, wjob, captureCount, cleanSincePurge, q >>

\* ------------------------------------------------- watcher and capturer

NoJob == [none |-> TRUE]

CaptureKey(n, r) == [pod |-> n, gen |-> pods[n].gen, ref |-> r]

\* How often the Capturer was invoked for a (pod generation, container).
Invocations(key) == IF key \in DOMAIN captureCount THEN captureCount[key] ELSE 0

\* The Capturer, invoked by watcher w for container r of pod n: the
\* container is marked as attempted; when the log stream is there (ok), the
\* temporary file appears, not yet whole.
Capture(w, n, r, ok) ==
    LET key == CaptureKey(n, r)
        path == ArchivePath(n, pods[n].spec, r)
    IN  /\ tracked' = [tracked EXCEPT ![w] = @ \cup {key}]
        /\ captureCount' = Put(captureCount, key, Invocations(key) + 1)
        /\ IF ok
           THEN /\ files' = Put(files, TempPath(path), [pod |-> n, gen |-> pods[n].gen,
                                                        ref |-> r, whole |-> FALSE])
                /\ dirs' = dirs \cup (IF HasSlash(path) THEN { DirOf(path) } ELSE { })
                /\ wjob' = [wjob EXCEPT ![w] = [key |-> key, path |-> path]]
           ELSE UNCHANGED << files, dirs, wjob >>

\* A MODIFIED event that shows container r of pod n terminated, not yet
\* captured for this pod generation.
OnModified ==
    \E w \in watchers, n \in LivePods, ok \in BOOLEAN :
        /\ wjob[w] = NoJob
        /\ \E r \in RefsOf(pods[n].spec) :
              /\ CaptureKey(n, r) \notin tracked[w]
              /\ Capture(w, n, r, ok)
        /\ UNCHANGED << config, process, cluster, cleanSincePurge, q >>

\* A redelivered event: the terminated container it shows is tracked.
OnDuplicate ==
    \E w \in watchers, n \in LivePods :
        /\ wjob[w] = NoJob
        /\ \E r \in RefsOf(pods[n].spec) : CaptureKey(n, r) \in tracked[w]
        /\ UNCHANGED vars

\* The DELETED event: a last capture of every container not yet captured.
OnDeleted ==
    \E w \in watchers, n \in PodNames, ok \in BOOLEAN :
        /\ pods[n] # NoPod /\ pods[n].gone
        /\ wjob[w] = NoJob
        /\ \E r \in RefsOf(pods[n].spec) :
              /\ CaptureKey(n, r) \notin tracked[w]
              /\ Capture(w, n, r, ok)
        /\ UNCHANGED << config, process, cluster, cleanSincePurge, q >>

\* The capture's write ends and the temporary file is renamed into place.
CaptureCommit ==
    \E w \in watchers :
        /\ wjob[w] # NoJob
        /\ LET temp == TempPath(wjob[w].path)
           IN  IF temp \in DOMAIN files
               THEN /\ files' = Put(Remove(files, {temp}), wjob[w].path,
                                    [files[temp] EXCEPT !.whole = TRUE])
                    /\ cleanSincePurge' = FALSE
                    /\ q' = IF q.pc = "walk" THEN [q EXCEPT !.clean = FALSE] ELSE q
               ELSE UNCHANGED << files, cleanSincePurge, q >>
        /\ wjob' = [wjob EXCEPT ![w] = NoJob]
        /\ UNCHANGED << config, process, cluster, dirs, tracked, captureCount >>

\* Every watcher has handled the DELETED event of pod n: the tracking entry
\* of that pod generation is discarded.
ForgetPod ==
    \E n \in PodNames :
        /\ pods[n] # NoPod /\ pods[n].gone
        /\ \A w \in watchers :
              /\ wjob[w] = NoJob
              /\ \A r \in RefsOf(pods[n].spec) : CaptureKey(n, r) \in tracked[w]
        /\ tracked' = [w \in watchers |-> { k \in tracked[w] : k.pod # n }]
        /\ captureCount' = Remove(captureCount, { k \in DOMAIN captureCount : k.pod = n })
        /\ pods' = [pods EXCEPT ![n] = NoPod]
        /\ UNCHANGED << config, process, gens, files, dirs, wjob, cleanSincePurge, q >>

\* ------------------------------------------------------------------ /ready

\* Readiness probes that may be in flight at once.
MaxProbes == 2

Probes == 1..MaxProbes

\* A probe thread outside readiness_probe.
IdleProbe == [pc |-> "idle", original_level |-> "NOTSET", status |-> 0]

\* No probe is inside readiness_probe.
ProbesReturned == \A p \in Probes : probes[p].pc \in { "idle", "returned" }

\* original_level = app.logger.level
ProbeSave ==
    \E p \in Probes :
        /\ probes[p].pc \in { "idle", "returned" }
        /\ probes' = [probes EXCEPT ![p] = [pc |-> "saved",
                                            original_level |-> logger_level,
                                            status |-> 0]]
        /\ UNCHANGED << config, cluster, archive, q, startup, logger_level, API_KEY, session, auth >>

\* app.logger.setLevel(logging.ERROR)
ProbeLower ==
    \E p \in Probes :
        /\ probes[p].pc = "saved"
        /\ logger_level' = "ERROR"
        /\ probes' = [probes EXCEPT ![p].pc = "lowered"]
        /\ UNCHANGED << config, cluster, archive, q, startup, API_KEY, session, auth >>

\* v1.list_namespaced_pod(...): it returns, or raises.
ProbeList ==
    \E p \in Probes, api_error \in BOOLEAN :
        /\ probes[p].pc = "lowered"
        /\ probes' = [probes EXCEPT ![p].pc = "listed",
                                    ![p].status = IF api_error THEN 503 ELSE 200]
        /\ UNCHANGED << config, cluster, archive, q, startup, logger_level, API_KEY, session, auth >>

\* app.logger.setLevel(original_level) on either path, and the return.
ProbeRestore ==
    \E p \in Probes :
        /\ probes[p].pc = "listed"
        /\ logger_level' = probes[p].original_level
        /\ probes' = [probes EXCEPT ![p].pc = "returned"]
        /\ UNCHANGED << config, cluster, archive, q, startup, API_KEY, session, auth >>

\* ----------------------------------------------------------------- start-up

\* No request has passed through require_api_key.
NoAuth == [endpoint |-> "none", supplied |-> << << >>, << >>, << >> >>, passed |-> FALSE]


\* StartWatchers with the thread started a second time.
StartWatchersTwice(retain) ==
    IF retain THEN { "PodLogArchiverThread", "PodLogArchiverThread-2" } ELSE { }

\* StartWatchers with the thread started whatever the flag says.
StartWatchersAlways(retain) == { "PodLogArchiverThread" }

\* The watcher threads the module starts: one, when archiving is enabled.
StartWatchers(retain) == IF retain THEN { "PodLogArchiverThread" } ELSE { }

Init ==
    /\ RETAIN_ALL_POD_LOGS \in BOOLEAN
    /\ ALLOW_PREVIOUS_LOG_PURGE \in BOOLEAN
    /\ KUBE_POD_NAME \in OwnNames
    /\ watchers = StartWatchers(RETAIN_ALL_POD_LOGS)
    /\ cleanup_job = RETAIN_ALL_POD_LOGS
    /\ pods = [n \in PodNames |-> NoPod]
    /\ gens = [n \in PodNames |-> 0]
    /\ files = << >>
    /\ dirs = { }
    /\ tracked = [w \in watchers |-> { }]
    /\ wjob = [w \in watchers |-> NoJob]
    /\ captureCount = << >>
    /\ cleanSincePurge = FALSE
    /\ q = Query("idle", "none", 0)
    /\ startup = [phase |-> "serving", failure |-> "none"]
    /\ logger_level = "NOTSET"
    /\ probes = [p \in Probes |-> IdleProbe]
    /\ API_KEY = << >>
    /\ session = << >>
    /\ auth = NoAuth

\* The module before line 74 runs: nothing is configured or started.
InitStart ==
    /\ RETAIN_ALL_POD_LOGS = FALSE
    /\ ALLOW_PREVIOUS_LOG_PURGE = FALSE
    /\ KUBE_POD_NAME = << >>
    /\ watchers = { }
    /\ cleanup_job = FALSE
    /\ pods = [n \in PodNames |-> NoPod]
    /\ gens = [n \in PodNames |-> 0]
    /\ files = << >>
    /\ dirs = { }
    /\ tracked = [w \in watchers |-> { }]
    /\ wjob = [w \in watchers |-> NoJob]
    /\ captureCount = << >>
    /\ cleanSincePurge = FALSE
    /\ q = Query("idle", "none", 0)
    /\ startup = [phase |-> "config", failure |-> "none"]
    /\ logger_level = "NOTSET"
    /\ probes = [p \in Probes |-> IdleProbe]
    /\ API_KEY = << >>
    /\ session = << >>
    /\ auth = NoAuth

\* Lines 74-81: the environment is read; int() of a retention age that is
\* not a number raises and the process ends.
LoadConfig ==
    /\ startup.phase = "config"
    /\ \E name \in OwnNames, retain \in BOOLEAN, allow \in BOOLEAN, age_is_number \in BOOLEAN :
          IF age_is_number
          THEN /\ KUBE_POD_NAME' = name
               /\ RETAIN_ALL_POD_LOGS' = retain
               /\ ALLOW_PREVIOUS_LOG_PURGE' = allow
               /\ startup' = [startup EXCEPT !.phase = "log_dir"]
          ELSE /\ KUBE_POD_NAME' = name
               /\ RETAIN_ALL_POD_LOGS' = retain
               /\ startup' = [phase |-> "exited", failure |-> "max_age"]
               /\ UNCHANGED ALLOW_PREVIOUS_LOG_PURGE
    /\ UNCHANGED << watchers, cleanup_job, cluster, archive, q, logger_level, probes,
                    API_KEY, session, auth >>

\* LogDirFallback with the flag left as configured.
LogDirFallbackKeep(retain, dir_ok) == retain

\* Line 92: archiving stays enabled only when the archive root is there.
LogDirFallback(retain, dir_ok) == retain /\ dir_ok

\* Lines 84-92: with archiving enabled the archive root is there, or is
\* created, or cannot be created (dir_ok false).
MakeLogDir ==
    /\ startup.phase = "log_dir"
    /\ \E dir_ok \in BOOLEAN :
          /\ RETAIN_ALL_POD_LOGS' = LogDirFallback(RETAIN_ALL_POD_LOGS, dir_ok)
          /\ startup' = [phase |-> "jobs",
                         failure |-> IF RETAIN_ALL_POD_LOGS /\ ~dir_ok THEN "log_dir" ELSE "none"]
    /\ UNCHANGED << ALLOW_PREVIOUS_LOG_PURGE, KUBE_POD_NAME, watchers, cleanup_job, cluster,
                    archive, q, logger_level, probes, API_KEY, session, auth >>

\* Lines 99-114: the cleanup job and the watcher thread.
StartJobs ==
    /\ startup.phase = "jobs"
    /\ cleanup_job' = RETAIN_ALL_POD_LOGS
    /\ watchers' = StartWatchers(RETAIN_ALL_POD_LOGS)
    /\ tracked' = [w \in watchers' |-> { }]
    /\ wjob' = [w \in watchers' |-> NoJob]
    /\ startup' = [startup EXCEPT !.phase = "serving"]
    /\ UNCHANGED << RETAIN_ALL_POD_LOGS, ALLOW_PREVIOUS_LOG_PURGE, KUBE_POD_NAME, cluster,
                    files, dirs, captureCount, cleanSincePurge, q, logger_level, probes,
                    API_KEY, session, auth >>

\* ------------------------------------------------------ the cluster's moves

CreatePodOf(specs) ==
    \E n \in PodNames, s \in specs :
        /\ pods[n] = NoPod
        /\ gens[n] < MaxGen
        /\ gens' = [gens EXCEPT ![n] = @ + 1]
        /\ pods' = [pods EXCEPT ![n] = [gen |-> gens[n] + 1, spec |-> s, gone |-> FALSE]]
        /\ UNCHANGED << config, process, archive, q >>

\* A pod whose containers' logs the archive root can tell apart.
CreatePod == CreatePodOf({ SingleSpec, MultiSpec })

\* A pod with an init container and a container named with the init prefix.
CreateInitPod == CreatePodOf({ InitSpec })

\* A pod is deleted: the API lists it no more, the watchers are owed its
\* DELETED event.
DeletePod ==
    \E n \in LivePods :
        /\ pods' = [pods EXCEPT ![n].gone = TRUE]
        /\ UNCHANGED << config, process, gens, archive, q >>

Next ==
    \/ ListBegin
    \/ ListWalk
    \/ ReadBegin
    \/ ReadOpen
    \/ purge_previous_logs
    \/ SweepDelete
    \/ OnModified
    \/ OnDuplicate
    \/ OnDeleted
    \/ CaptureCommit
    \/ ForgetPod
    \/ CreatePod
    \/ DeletePod

Spec == Init /\ [][Next]_vars

\* The live queries alone, over every pod shape.
NextIds ==
    \/ get_pods
    \/ get_logs
    \/ CreatePod
    \/ CreateInitPod
    \/ DeletePod
    \/ ForgetPod

SpecIds == Init /\ [][NextIds]_vars

\* ------------------------------------------------- require_api_key, /login

\* The values a request carries as a key: none (or an empty one), the key
\* the operator configured in SpecAuth, and another one.
Keys == { << >>, << "k" >>, << "x" >> }

\* The routes decorated with @require_api_key, by the op of their response.
ProtectedEndpoints ==
    { "index", "archived_pods", "archived_logs", "stats", "purge_capability", "purge" }

\* not (not api_key or api_key == "no-key")
KeyRequired(api_key) == ~(api_key = << >> \/ api_key = << "no-key" >>)

\* provided_key: the query string's api_key, else the X-API-Key header, else
\* the session's api_key.
ProvidedKey(query_key, header_key, session_key) ==
    IF query_key # << >> THEN query_key
    ELSE IF header_key # << >> THEN header_key
    ELSE session_key

\* KeyAccepted without the comparison.
KeyAcceptedAnyKey(api_key, provided_key) == ~(provided_key = << >>)

\* not (not provided_key or provided_key != api_key)
KeyAccepted(api_key, provided_key) == ~(provided_key = << >> \/ provided_key # api_key)

\* The decorator, up to the call of the route's function or the rejection:
\* the JSON 401, or the login form (a 200) for other clients.
require_api_key ==
    \E endpoint \in ProtectedEndpoints, query_key \in Keys, header_key \in Keys,
       accept_json \in BOOLEAN :
        /\ QueryFree
        /\ IF ~KeyRequired(API_KEY)
           THEN /\ auth' = [NoAuth EXCEPT !.endpoint = endpoint, !.passed = TRUE]
                /\ q' = Query("idle", "none", 0)
           ELSE IF ~KeyAccepted(API_KEY, ProvidedKey(query_key, header_key, session))
           THEN /\ auth' = [endpoint |-> endpoint, passed |-> FALSE,
                            supplied |-> << query_key, header_key, session >>]
                /\ q' = Query("done", "rejected", IF accept_json THEN 401 ELSE 200)
           ELSE /\ auth' = [endpoint |-> endpoint, passed |-> TRUE,
                            supplied |-> << query_key, header_key, session >>]
                /\ q' = Query("idle", "none", 0)
        /\ UNCHANGED << config, cluster, archive, startup, logger_level, probes,
                        API_KEY, session >>

\* The decorator calls the function of the route.
Admitted(endpoint) == auth.passed /\ auth.endpoint = endpoint /\ q.pc = "idle"

\* POST /login
login ==
    \E provided_key \in Keys :
        /\ QueryFree
        /\ IF ~KeyRequired(API_KEY)
           THEN /\ session' = << "no-key" >>
                /\ q' = Query("done", "login", 302)
           ELSE IF provided_key = API_KEY
           THEN /\ session' = provided_key
                /\ q' = Query("done", "login", 302)
           ELSE /\ session' = session
                /\ q' = Query("done", "login", 401)
        /\ auth' = NoAuth
        /\ UNCHANGED << config, cluster, archive, startup, logger_level, probes, API_KEY >>

\* GET /
serve_index ==
    /\ QueryFree
    /\ q' = Query("done", "index", 200)
    /\ UNCHANGED << config, process, cluster, archive >>

\* GET /api/purgeCapability
get_purge_capability ==
    /\ QueryFree
    /\ q' = [Query("done", "purge_capability", 200) EXCEPT
                !.enabled = RETAIN_ALL_POD_LOGS /\ ALLOW_PREVIOUS_LOG_PURGE]
    /\ UNCHANGED << config, process, cluster, archive >>

\* The archive root a restarted process finds on its volume: the captures
\* an earlier run made of the two containers of pod "a".
EarlierCaptures ==
    [path \in { ArchivePath(<< "a" >>, MultiSpec, r) : r \in RefsOf(MultiSpec) } |->
        [pod |-> << "a" >>, gen |-> 1, whole |-> TRUE,
         ref |-> CHOOSE r \in RefsOf(MultiSpec) : ArchivePath(<< "a" >>, MultiSpec, r) = path]]

\* A restarted process with archiving and purging enabled, with or without
\* an API key.
InitAuth ==
    /\ RETAIN_ALL_POD_LOGS = TRUE
    /\ ALLOW_PREVIOUS_LOG_PURGE = TRUE
    /\ KUBE_POD_NAME = << "lp" >>
    /\ watchers = StartWatchers(RETAIN_ALL_POD_LOGS)
    /\ cleanup_job = RETAIN_ALL_POD_LOGS
    /\ pods = [n \in PodNames |-> NoPod]
    /\ gens = [n \in PodNames |-> 0]
    /\ files = EarlierCaptures
    /\ dirs = { DirOf(path) : path \in DOMAIN EarlierCaptures }
    /\ tracked = [w \in watchers |-> { }]
    /\ wjob = [w \in watchers |-> NoJob]
    /\ captureCount = << >>
    /\ cleanSincePurge = FALSE
    /\ q = Query("idle", "none", 0)
    /\ startup = [phase |-> "serving", failure |-> "none"]
    /\ logger_level = "NOTSET"
    /\ probes = [p \in Probes |-> IdleProbe]
    /\ API_KEY \in { << >>, << "no-key" >>, << "k" >> }
    /\ session = << >>
    /\ auth = NoAuth

\* The key-protected routes behind their decorator, and /login.
NextAuth ==
    \/ require_api_key
    \/ login
    \/ Admitted("index") /\ serve_index
    \/ Admitted("archived_pods") /\ ListBegin
    \/ ListWalk
    \/ Admitted("archived_logs") /\ ReadBegin
    \/ ReadOpen
    \/ Admitted("stats") /\ StatsBegin
    \/ StatsWalk
    \/ StatsStat
    \/ Admitted("purge_capability") /\ get_purge_capability
    \/ Admitted("purge") /\ purge_previous_logs

SpecAuth == InitAuth /\ [][NextAuth]_vars

\* The queries that call the cluster.
NextApi ==
    \/ get_pods
    \/ get_logs
    \/ get_logs_all
    \/ ListBegin
    \/ ListWalk
    \/ CreatePod
    \/ CreateInitPod
    \/ DeletePod
    \/ ForgetPod

SpecApi == Init /\ [][NextApi]_vars

\* Start-up, then the archive's handlers and jobs.
NextStart ==
    \/ LoadConfig
    \/ MakeLogDir
    \/ StartJobs
    \/ startup.phase = "serving" /\ Next

SpecStart == InitStart /\ [][NextStart]_vars

\* The readiness probes alone.
NextReady ==
    \/ ProbeSave
    \/ ProbeLower
    \/ ProbeList
    \/ ProbeRestore

SpecReady == Init /\ [][NextReady]_vars

\* The statistics and the listing, with the archiver at work.
NextStats ==
    \/ StatsBegin
    \/ StatsWalk
    \/ StatsStat
    \/ ListBegin
    \/ ListWalk
    \/ SweepDelete
    \/ OnModified
    \/ OnDeleted
    \/ CaptureCommit
    \/ ForgetPod
    \/ CreatePod
    \/ DeletePod

SpecStats == Init /\ [][NextStats]_vars

\* The archived read of any pod_name, with the archive filling and emptying.
NextPaths ==
    \/ ReadBeginAny
    \/ ReadOpen
    \/ SweepDelete
    \/ OnModified
    \/ OnDeleted
    \/ CaptureCommit
    \/ ForgetPod
    \/ CreatePod
    \/ DeletePod

SpecPaths == Init /\ [][NextPaths]_vars

\* The statistics with the archive root changing between requests only.
NextStatsQuiet ==
    \/ StatsBegin
    \/ StatsWalk
    \/ StatsStat
    \/ QueryFree /\ SweepDelete
    \/ QueryFree /\ OnModified
    \/ QueryFree /\ OnDeleted
    \/ QueryFree /\ CaptureCommit
    \/ ForgetPod
    \/ CreatePod
    \/ DeletePod

SpecStatsQuiet == Init /\ [][NextStatsQuiet]_vars

\* ------------------------------------------------------------------ claims

\* What get_archived_pods returns for the archive root and the pod list as
\* they stand.
ArchivedListing ==
    IF RETAIN_ALL_POD_LOGS
    THEN ListedNames(FilesIn(<< >>), RunningPodContainers(Items))
         \o Flatten([i \in 1..Len(SetToSeq(dirs)) |->
                       ListedNames(FilesIn(SetToSeq(dirs)[i]), RunningPodContainers(Items))])
    ELSE << >>

\* C1: a purge request made while archiving-enabled or purge-allowed is false
\* is answered 403 and leaves the archive files, the directories and the
\* result of the archived listing as they were.
C1_PurgeRejectedTouchesNothing ==
    [][ (~(RETAIN_ALL_POD_LOGS /\ ALLOW_PREVIOUS_LOG_PURGE) /\ purge_previous_logs)
        => /\ q'.status = 403
           /\ files' = files
           /\ dirs' = dirs
           /\ ArchivedListing' = ArchivedListing ]_vars

\* C1 witness: a purge was rejected while the archive held an entry that the
\* listing shows.
C1_Witness ==
    /\ q.op = "purge" /\ q.status = 403
    /\ RETAIN_ALL_POD_LOGS /\ ~ALLOW_PREVIOUS_LOG_PURGE
    /\ Entries # { }
    /\ ArchivedListing # << >>

\* The archive entries that hold the capture of one (pod generation, container).
EntriesOf(key) ==
    { path \in Entries : files[path].pod = key.pod /\ files[path].gen = key.gen
                         /\ files[path].ref = key.ref }

\* C2: for every (pod generation, container) the Capturer was invoked at most
\* once and at most one archive entry holds its capture; at most one watcher
\* runs, exactly one when archiving is enabled.
C2_CaptureAtMostOnce ==
    /\ \A key \in DOMAIN captureCount :
          /\ captureCount[key] <= 1
          /\ Cardinality(EntriesOf(key)) <= 1
    /\ Cardinality(watchers) = IF RETAIN_ALL_POD_LOGS THEN 1 ELSE 0

\* C2 witness: a container was captured and archived, its pod is still
\* listed, so that a redelivered event finds it tracked.
C2_Witness ==
    \E key \in DOMAIN captureCount :
        /\ captureCount[key] = 1
        /\ EntriesOf(key) # { }
        /\ key.pod \in LivePods /\ pods[key.pod].gen = key.gen
        /\ ENABLED OnDuplicate

\* C3: no listing names a file that was not whole when the walk saw it, and
\* no archived read returns the content of a file that is not whole.
C3_NoPartialEntryVisible ==
    /\ q.op = "archived_pods" => q.partial = { }
    /\ (q.op = "archived_logs" /\ q.pc = "done" /\ q.status = 200) => q.whole

\* C3 witness: a listing returned after its walk saw a temporary file, and
\* the capture that writes one is still in flight.
C3_Witness ==
    /\ q.op = "archived_pods" /\ q.pc = "done" /\ q.skipped
    /\ \E w \in watchers :
          /\ wjob[w] # NoJob
          /\ TempPath(wjob[w].path) \in DOMAIN files
          /\ ~files[TempPath(wjob[w].path)].whole

\* C4: a listing that began after an accepted purge answered error_count 0,
\* with no capture completed since that purge, returns the empty list.
C4_ListingEmptyAfterCleanPurge ==
    (q.op = "archived_pods" /\ q.pc = "done" /\ q.clean) => q.names = << >>

\* C4 witness: such a listing returned in an archive where a capture into a
\* pod directory had completed (the directory is there, no capture is in
\* flight) and whose entries are gone, for a viewer whose own pod is none
\* of the archived ones.
C4_Witness ==
    /\ q.op = "archived_pods" /\ q.pc = "done" /\ q.clean
    /\ q.status = 200 /\ dirs # { } /\ Entries = { }
    /\ \A w \in watchers : wjob[w] = NoJob
    /\ KUBE_POD_NAME \notin PodNames

C6_OwnPodNeverListed ==
    q.op = "archived_pods"
        => \A i \in 1..Len(q.names) : DecodePod(q.names[i]) # KUBE_POD_NAME

\* C6 witness: a listing returned after its walk saw an entry of the own pod
\* at the top level and one nested under the pod's directory, neither of
\* them the entry of a running pod.
C6_Witness ==
    /\ q.op = "archived_pods" /\ q.pc = "done"
    /\ \E top \in q.scanned, nested \in q.scanned :
          /\ IsArchiveFile(top) /\ ~HasSlash(top)
          /\ IsArchiveFile(nested) /\ HasSlash(nested)
          /\ DecodePod(DropExt(top)) = KUBE_POD_NAME
          /\ DecodePod(DropExt(nested)) = KUBE_POD_NAME
          /\ DropExt(top) \notin q.running
          /\ DropExt(nested) \notin q.running

\* C7 as stated: the identifiers of one pod listing are pairwise different,
\* and a log query for the identifier of a container of a listed pod reads
\* the log of that container.
C7_IdentifiersLossless ==
    /\ (q.op = "pods" /\ q.status = 200)
          => \A i, j \in 1..Len(q.names) : i # j => q.names[i] # q.names[j]
    /\ q.op = "logs"
          => \A k \in 1..Len(q.items) :
                \A j \in 1..Len(RefList(q.items[k].spec)) :
                    PodIdentifiers(q.items[k].name, q.items[k].spec)[j] = q.name
                        => /\ q.status = 200
                           /\ q.src = [pod |-> q.items[k].name, gen |-> q.items[k].gen,
                                       ref |-> RefList(q.items[k].spec)[j]]

\* C8 as stated: an archived read with archiving enabled, a pod_name and a
\* valid tail_lines ends with the content (200) or with not-found (404).
C8_ReadContentOrNotFound ==
    (q.op = "archived_logs" /\ q.pc = "done" /\ RETAIN_ALL_POD_LOGS
        /\ q.name # << >> /\ q.status # 400)
        => q.status \in { 200, 404 }

\* C9 as stated: an archive entry, once written, keeps its content for as
\* long as it exists; no later capture replaces it.
C9_EntryNeverReplaced ==
    [][ \A path \in Entries : path \in DOMAIN files' => files'[path] = files[path] ]_vars

\* C10 as stated: every archive file the walk saw whose pod is not the
\* viewer's own pod and whose identifier is not in the pod list is named
\* exactly once in the listing, by its relative path without the extension,
\* and the archived read maps that name back to the file.
C10_EveryEntryListedOnce ==
    (q.op = "archived_pods" /\ q.pc = "done" /\ q.status = 200)
        => \A path \in q.scanned :
              (/\ IsArchiveFile(path)
               /\ DecodePod(DropExt(path)) # KUBE_POD_NAME
               /\ DropExt(path) \notin q.live)
              => /\ Count(q.names, DropExt(path)) = 1
                 /\ LogFilePath(DropExt(path)) = path

\* The sum of the sizes of a set of archive files.
RECURSIVE SumSizes(_)
SumSizes(paths) ==
    IF paths = { } THEN 0
    ELSE LET path == CHOOSE p \in paths : TRUE
         IN  StSize(files[path]) + SumSizes(paths \ {path})

\* What the statistics have to say of the archive root as it stands.
StatsExact ==
    /\ q.status = 200
    /\ q.file_count = Cardinality(Entries)
    /\ q.total_size = SumSizes(Entries)
    /\ IF Entries = { }
       THEN q.oldest_date = << >>
       ELSE /\ \E path \in Entries : q.oldest_date = << StCtime(files[path]) >>
            /\ \A path \in Entries : q.oldest_date[1] <= StCtime(files[path])

\* C11 as stated: statistics over an archive root that did not change while
\* they were taken, and is still as it was, report the number of archive files, the sum of their
\* sizes and the least of their creation times (none when there is no file).
C11_Original ==
    (q.op = "stats" /\ q.pc = "done" /\ q.before = files)
        => q.enabled /\ StatsExact

\* C11 amended: the same, when archiving is enabled.
C11_StatsExact ==
    (q.op = "stats" /\ q.pc = "done" /\ q.before = files /\ RETAIN_ALL_POD_LOGS)
        => q.enabled /\ StatsExact

\* C11 witness: statistics returned over an unchanged archive root that
\* holds a top-level and a nested archive file of different pod generations
\* and the temporary file of a capture in flight.
C11_Witness ==
    /\ q.op = "stats" /\ q.pc = "done" /\ q.before = files /\ RETAIN_ALL_POD_LOGS
    /\ \E top \in Entries, nested \in Entries :
          /\ ~HasSlash(top) /\ HasSlash(nested)
          /\ files[top].gen # files[nested].gen
    /\ \E path \in DOMAIN files : ~IsArchiveFile(path)

\* C15 as stated: the statistics and the archived listing end with a
\* successful result, whatever is deleted while they walk.
C15_WalkNeverFails ==
    (q.op \in { "stats", "archived_pods" } /\ q.pc = "done") => q.status = 200

\* C12: once start-up is over there is one watcher and the cleanup job
\* when archiving is enabled and neither when it is not, and before that
\* none is started; with archiving disabled the archived listing returns
\* the empty list, the archived read and the purge answer 403.
C12_JobsAndHandlersFollowFlag ==
    /\ startup.phase = "serving"
          => /\ Cardinality(watchers) = IF RETAIN_ALL_POD_LOGS THEN 1 ELSE 0
             /\ cleanup_job = RETAIN_ALL_POD_LOGS
    /\ startup.phase # "serving" => watchers = { } /\ ~cleanup_job
    /\ (startup.phase = "serving" /\ ~RETAIN_ALL_POD_LOGS /\ q.pc = "done")
          => /\ q.op = "archived_pods" => q.status = 200 /\ q.names = << >>
             /\ q.op = "archived_logs" => q.status = 403
             /\ q.op = "purge" => q.status = 403 /\ files = << >>

\* C12 witness: archiving is disabled because the archive root could not be
\* created, and an archived read was answered.
C12_Witness ==
    /\ startup = [phase |-> "serving", failure |-> "log_dir"]
    /\ ~RETAIN_ALL_POD_LOGS
    /\ q.op = "archived_logs" /\ q.pc = "done" /\ q.name # << >>

\* C13 as stated: after a configuration failure the process does not go on
\* to serve requests.
C13_Original ==
    startup.failure # "none" => startup.phase # "serving"

\* C13 amended: a retention age that is not a number ends the process with
\* no job started; an archive root that cannot be created leaves archiving
\* disabled and no job started; and once start-up is over the configuration
\* values never change.
C13_ConfigFailures ==
    /\ [](/\ startup.failure = "max_age"
               => startup.phase = "exited" /\ watchers = { } /\ ~cleanup_job
          /\ startup.failure = "log_dir"
               => ~RETAIN_ALL_POD_LOGS /\ watchers = { } /\ ~cleanup_job)
    /\ [][ startup.phase = "serving"
             => /\ startup'.phase = "serving"
                /\ RETAIN_ALL_POD_LOGS' = RETAIN_ALL_POD_LOGS
                /\ ALLOW_PREVIOUS_LOG_PURGE' = ALLOW_PREVIOUS_LOG_PURGE
                /\ KUBE_POD_NAME' = KUBE_POD_NAME ]_vars

\* C13 witness: the process serves with archiving disabled after the
\* archive root could not be created, and has answered a listing.
C13_Witness ==
    /\ startup = [phase |-> "serving", failure |-> "log_dir"]
    /\ q.op = "archived_pods" /\ q.pc = "done"

C16_OpensInsideRoot ==
    (q.op = "archived_logs" /\ q.opened # << >>) => InsideRoot(q.opened)

\* C18: with an API key configured, the function of a key-protected route
\* has run only for a request whose supplied key (the query string's, else
\* the header's, else the session's) equals the configured key; the session
\* holds no key other than the configured one; and a step of the purge that
\* removes files belongs to a request with that key.
C18_KeyProtects ==
    /\ [](KeyRequired(API_KEY) =>
            /\ (q.op \in ProtectedEndpoints \/ (auth.endpoint # "none" /\ q.pc = "idle"))
                  => LET supplied == IF auth.supplied[1] # << >> THEN auth.supplied[1]
                                     ELSE IF auth.supplied[2] # << >> THEN auth.supplied[2]
                                     ELSE auth.supplied[3]
                     IN  supplied = API_KEY
            /\ session \in { << >>, API_KEY })
    /\ [][(KeyRequired(API_KEY) /\ q'.op = "purge" /\ q.op # "purge" /\ files' # files)
            => (auth.supplied[1] = API_KEY
                \/ (auth.supplied[1] = << >> /\ auth.supplied[2] = API_KEY)
                \/ (auth.supplied[1] = << >> /\ auth.supplied[2] = << >>
                    /\ auth.supplied[3] = API_KEY))]_vars

\* C18 witness: with a key configured, a purge admitted through the key of
\* the session alone has answered with the files it removed.
C18_Witness ==
    /\ KeyRequired(API_KEY)
    /\ q.op = "purge" /\ q.pc = "done" /\ q.deleted_count > 0
    /\ auth.supplied = << << >>, << >>, API_KEY >>

\* C17 as stated: whenever no probe is inside readiness_probe, the logger
\* level is the level it had before the probes began.
C17_LevelRestored ==
    ProbesReturned => logger_level = "NOTSET"

====
